---- MODULE Spec2Model ----
(***************************************************************************)
(* Model of the Hyper Data Lab frontend scripts: the shared API client     *)
(* (configuration resolution and APIClient.request) and the data           *)
(* collection page (ConsoleLogger, the symbol rows, handleStartScrape and  *)
(* its companions).  JavaScript runs one job at a time, so each action is  *)
(* one job: an event handler up to its first await, or the continuation    *)
(* that runs when an awaited promise settles.                               *)
(***************************************************************************)
EXTENDS Integers, Sequences, FiniteSets, TLC

VARIABLES
    API_BASE_URL,   \* the global base address
    configLoaded,   \* the global flag set by loadConfig
    configPc,       \* where loadConfig is: "fetch", "json" or "done"
    loadConfigRuns, \* how many times loadConfig was called
    logger,         \* the ConsoleLogger instance with the elements it writes
    clearedView,    \* what the render and updateStats calls of the latest clear() wrote
    rows,           \* the .symbol-row elements of #symbolsContainer, in document order
    headlessMode,   \* whether the #headlessMode checkbox is checked
    symbolCounter,  \* the global row counter
    removeTimers,   \* rows whose 300 ms removal timer is pending
    isScraping,     \* the global scraping flag
    controls,       \* disabled attribute of the start, stop and add buttons
    orchs,          \* the handleStartScrape invocations that passed validation
    fetchCalls,     \* every fetch() the API client issued, in order
    returned,       \* what the latest request() to settle gave its caller
    lastToast,      \* arguments of the latest showToast call
    reportId,       \* detail.js: the id parameter of the page URL
    detailPc,       \* detail.js: where the page is: "parsed", "loading", "redirecting", "left", "settled"
    containers,     \* detail.js: what the title, the symbol field and the statement containers show
    activeTab,      \* detail.js: the statement tab that is active
    currentData,    \* management page: the reports of the latest list response handled
    filteredData,   \* management page: the reports the table shows
    deleteTargetId, \* management page: the report the delete modal is about
    deleteModal,    \* management page: whether #deleteModal has the class show
    dataTableBody,  \* management page: what the table body shows
    statCards,      \* management page: the four counters loadStats writes
    opened          \* management page: the ids window.deleteReport was called with, in order,
                    \* each with the ids of the delete requests made while its modal was open

vars == <<API_BASE_URL, configLoaded, configPc, loadConfigRuns, logger, clearedView,
          rows, headlessMode, symbolCounter, removeTimers, isScraping, controls,
          orchs, fetchCalls, returned, lastToast,
          reportId, detailPc, containers, activeTab,
          currentData, filteredData, deleteTargetId, deleteModal, dataTableBody, statCards,
          opened>>

configVars == <<API_BASE_URL, configLoaded, configPc, loadConfigRuns>>
rowVars == <<rows, headlessMode, symbolCounter, removeTimers>>
detailVars == <<reportId, detailPc, containers, activeTab>>
manageVars == <<currentData, filteredData, deleteTargetId, deleteModal, dataTableBody,
                statCards, opened>>
pageVars == <<detailVars, manageVars>>

-----------------------------------------------------------------------------
\* Bounds of the model.

\* accepted starts (handleStartScrape invocations that pass validation)
MaxStarts == 2
\* calls of addSymbolRow
MaxAdds == 1
\* a start that validation rejects is taken while the log is shorter than this
MaxLog == 2
\* list requests of the management page before the user stops clicking
MaxLoads == 2
\* delete requests of the management page
MaxDeletes == 2
\* calls of window.deleteReport
MaxOpens == 1

-----------------------------------------------------------------------------
\* JavaScript values.

\* A JSON object is a function from its field names to their values.
EmptyObject == [f \in {} |-> 0]
\* The JSON literal null; reading a property of it throws a TypeError.
JNull == [literal |-> "null"]
\* What a template literal prints for an undefined value.
Undefined == "undefined"
\* a JSON array
Array(items) == [array |-> items]

Has(o, f) == f \in DOMAIN o

\* `${o.f}` for a string field
TplStr(o, f) == IF Has(o, f) THEN o[f] ELSE Undefined

Digits == <<"0", "1", "2", "3", "4", "5", "6", "7", "8", "9">>
\* `${n}` for a number
NumStr(n) == Digits[n + 1]
\* `${o.f}` for a numeric field
TplNum(o, f) == IF Has(o, f) THEN NumStr(o[f]) ELSE Undefined

\* if (o.f) for a boolean field
Truthy(o, f) == Has(o, f) /\ o[f] = TRUE

\* Array.prototype.join(', ') as the parts of the joined string
RECURSIVE Join(_)
Join(s) ==
    IF s = <<>> THEN <<>>
    ELSE IF Len(s) = 1 THEN <<s[1]>>
    ELSE <<s[1], ", ">> \o Join(Tail(s))

-----------------------------------------------------------------------------
\* api.js: escapeHtml and showToast.

\* escapeHtml on one part of a message
EscapePart(s) ==
    CASE s = "Not <found>" -> "Not &lt;found&gt;"
      [] OTHER -> s

escapeHtml(text) == [i \in 1..Len(text) |-> EscapePart(text[i])]

\* showToast(message, type): the toast element's text and class
showToast(message, type) == [message |-> message, type |-> type]

-----------------------------------------------------------------------------
\* collection.js: ConsoleLogger.  A message is the sequence of the parts of
\* its template literal.  The entry's timestamp is wall-clock text that no
\* handler reads back.

LogTypes == {"info", "success", "error", "warning"}

\* type.toUpperCase()
UpperType(type) ==
    CASE type = "info" -> "INFO"
      [] type = "success" -> "SUCCESS"
      [] type = "error" -> "ERROR"
      [] type = "warning" -> "WARNING"

NewLogger ==
    [logs |-> <<>>,
     stats |-> [total |-> 0, success |-> 0, errors |-> 0],
     logElement |-> <<>>,
     statsElements |-> [total |-> 0, success |-> 0, errors |-> 0]]

\* render(): logElement.innerHTML rebuilt from this.logs
render(L) ==
    [L EXCEPT !.logElement =
        [i \in 1..Len(L.logs) |->
            [class |-> <<"log-entry log-", L.logs[i].type>>,
             label |-> UpperType(L.logs[i].type),
             message |-> escapeHtml(L.logs[i].message)]]]

\* updateStats(): the three counter elements rewritten from this.stats
updateStats(L) ==
    [L EXCEPT !.statsElements =
        [total |-> L.stats.total, success |-> L.stats.success, errors |-> L.stats.errors]]

\* log() without the errors counter
LogNoErrorCount(L, type, message) ==
    updateStats(render(
        [L EXCEPT !.logs = Append(L.logs, [type |-> type, message |-> message]),
                  !.stats = [total |-> L.stats.total + 1,
                             success |-> L.stats.success + (IF type = "success" THEN 1 ELSE 0),
                             errors |-> L.stats.errors]]))

\* log() that keeps the latest entries only
LogDropsOldest(L, type, message) ==
    LET all == Append(L.logs, [type |-> type, message |-> message])
    IN updateStats(render(
        [L EXCEPT !.logs = IF Len(all) > 3 THEN Tail(all) ELSE all,
                  !.stats = [total |-> L.stats.total + 1,
                             success |-> L.stats.success + (IF type = "success" THEN 1 ELSE 0),
                             errors |-> L.stats.errors + (IF type = "error" THEN 1 ELSE 0)]]))

\* log(type, message)
Log(L, type, message) ==
    updateStats(render(
        [L EXCEPT !.logs = Append(L.logs, [type |-> type, message |-> message]),
                  !.stats = [total |-> L.stats.total + 1,
                             success |-> L.stats.success + (IF type = "success" THEN 1 ELSE 0),
                             errors |-> L.stats.errors + (IF type = "error" THEN 1 ELSE 0)]]))

\* clear() that empties the list only
ClearKeepsStats(L) ==
    updateStats(render([L EXCEPT !.logs = <<>>]))

\* clear()
Clear(L) ==
    updateStats(render(
        [L EXCEPT !.logs = <<>>,
                  !.stats = [total |-> 0, success |-> 0, errors |-> 0]]))

\* a run of log calls, entries being <<type, message>> pairs in call order
RECURSIVE LogAll(_, _)
LogAll(L, entries) ==
    IF entries = <<>> THEN L
    ELSE LogAll(Log(L, Head(entries).type, Head(entries).message), Tail(entries))

Entry(type, message) == [type |-> type, message |-> message]

-----------------------------------------------------------------------------
\* api.js: configuration resolution.

DefaultBaseUrl == "http://localhost:8000/api/v1"
ConfiguredBaseUrl == "http://backend:9000/api/v1"

\* What GET /api/config may answer with, once the body parsed as JSON.
ConfigBodies ==
    {[apiBaseUrl |-> ConfiguredBaseUrl], [detail |-> "Not <found>"], EmptyObject, JNull}

\* API_BASE_URL = config.apiBaseUrl inside the try block: reading a property
\* of null throws before the assignment, and the catch leaves the value alone.
LoadConfigAssign(base, config) ==
    IF config = JNull THEN base
    ELSE IF Has(config, "apiBaseUrl") THEN config.apiBaseUrl
    ELSE Undefined

-----------------------------------------------------------------------------
\* api.js: APIClient.request.

None == [none |-> TRUE]

Success(data) == [success |-> TRUE, data |-> data]
Failure(message) == [success |-> FALSE, error |-> message]
\* an exception that leaves request() instead of a returned value
Raised(message) == [raised |-> message]

IsOutcome(r) ==
    \/ DOMAIN r = {"success", "data"} /\ r.success = TRUE
    \/ DOMAIN r = {"success", "error"} /\ r.success = FALSE

\* the gate without its await
GateSkipsWait(loaded) == "fetch"

\* if (!configLoaded) await configPromise: where request() goes next
RequestGate(loaded) == IF ~loaded THEN "awaitConfig" ELSE "fetch"

\* `${API_BASE_URL}${endpoint}`
BuildUrl(base, endpoint) == <<base, endpoint>>

DefaultHeaders == "Content-Type" :> "application/json"

\* { headers: { 'Content-Type': ..., ...options.headers }, ...options }
RequestConfig(options) ==
    LET merged == IF Has(options, "headers")
                  THEN [h \in DOMAIN DefaultHeaders \cup DOMAIN options.headers |->
                           IF h \in DOMAIN options.headers THEN options.headers[h]
                           ELSE DefaultHeaders[h]]
                  ELSE DefaultHeaders
    IN [k \in DOMAIN options \cup {"headers"} |->
           IF k \in DOMAIN options THEN options[k] ELSE merged]

\* fetch(url, config) as request() issues it
FetchCall(base, endpoint, options) ==
    [url |-> BuildUrl(base, endpoint), config |-> RequestConfig(options)]

\* `HTTP error! status: ${response.status}`
HttpErrorMessage(status) == <<"HTTP error! status: ", NumStr(status \div 100), NumStr((status \div 10) % 10), NumStr(status % 10)>>

FetchRejectedMessage == <<"Failed to fetch">>
JsonParseMessage == <<"Unexpected end of JSON input">>
NullPropertyMessage == <<"Cannot read properties of null (reading 'detail')">>

\* request() without its catch block
RequestCatchRethrows(message) == Raised(message)

\* the catch block of request(): the exception becomes a Failure
RequestCatch(message) == Failure(message)

\* fetch() rejected
RequestOnReject == RequestCatch(FetchRejectedMessage)

\* response.json() rejected
RequestOnParseError == RequestCatch(JsonParseMessage)

\* response.json() gave data, for a response with the given ok and status
RequestOnData(response, data) ==
    IF ~response.ok
    THEN IF data = JNull THEN RequestCatch(NullPropertyMessage)
         ELSE IF Has(data, "detail") THEN RequestCatch(<<data.detail>>)
         ELSE RequestCatch(HttpErrorMessage(response.status))
    ELSE Success(data)

-----------------------------------------------------------------------------
\* api.js: the scraper endpoints and what the backend may answer.

\* scrapeSingle(symbol, headless): endpoint and options handed to request()
scrapeSingle(symbol, headless) ==
    [endpoint |-> "/scrapper/scrape",
     options |-> [method |-> "POST", body |-> [symbol |-> symbol, headless |-> headless]]]

\* scrapeBulk(symbols, headless)
scrapeBulk(symbols, headless) ==
    [endpoint |-> "/scrapper/scrape-bulk",
     options |-> [method |-> "POST", body |-> [symbols |-> symbols, headless |-> headless]]]

\* The responses fetch() may resolve with: a success and a server error.
Responses == {[ok |-> TRUE, status |-> 200], [ok |-> FALSE, status |-> 500]}

SymbolOk(symbol) ==
    [symbol |-> symbol, success |-> TRUE, message |-> "Scraped",
     reports_count |-> 3, created_count |-> 2, updated_count |-> 1]

SymbolFailed(symbol) ==
    [symbol |-> symbol, success |-> FALSE, message |-> "timeout"]

Reverse(s) == [i \in 1..Len(s) |-> s[Len(s) + 1 - i]]

\* Per-symbol results of a bulk scrape: all succeeded, or the last symbol
\* failed; in submission order or reversed.
BulkResults(symbols) ==
    LET allOk == [i \in 1..Len(symbols) |-> SymbolOk(symbols[i])]
        lastFails == [i \in 1..Len(symbols) |->
                         IF i = Len(symbols) THEN SymbolFailed(symbols[i])
                         ELSE SymbolOk(symbols[i])]
    IN {allOk, lastFails, Reverse(lastFails)}

Successful(results) == Cardinality({i \in 1..Len(results) : results[i].success})

\* JSON bodies the backend may send for a scrape call, by the response's ok
ScrapeBodies(call, response) ==
    IF ~response.ok THEN {[detail |-> "Not <found>"], EmptyObject, JNull}
    ELSE IF Has(call.options.body, "symbol")
    THEN {SymbolOk(call.options.body.symbol), SymbolFailed(call.options.body.symbol)}
    ELSE {[total_symbols |-> Len(r), successful_symbols |-> Successful(r), results |-> r] :
             r \in BulkResults(call.options.body.symbols)}

-----------------------------------------------------------------------------
\* api.js: getReports, and loadData of the management page, which calls it.

\* JavaScript values of a filter: strings, numbers, null and NaN
Str(s) == [str |-> s]
Num(n) == [num |-> n]
NaN == [literal |-> "NaN"]

\* if (v): the empty string, 0, null and NaN are falsy
IsTruthy(v) ==
    IF Has(v, "str") THEN v.str # ""
    ELSE IF Has(v, "num") THEN v.num # 0
    ELSE FALSE

\* application/x-www-form-urlencoded text of a string, as URLSearchParams writes it
FormEncode(s) ==
    CASE s = "A B" -> "A+B"
      [] OTHER -> s

\* the text URLSearchParams.append stores for a value, serialized
ValueText(v) ==
    IF Has(v, "str") THEN FormEncode(v.str)
    ELSE IF Has(v, "num") THEN ToString(v.num)
    ELSE v.literal

\* the filters getReports looks at, in the order of its if statements
ReportKeys == <<"symbol", "report_type", "report_year", "limit", "offset">>

\* getReports that appends every filter of params
QueryParamsAllKeys(params) ==
    LET Given(k) == Has(params, k)
        keys == SelectSeq(ReportKeys, Given)
    IN [i \in 1..Len(keys) |-> <<keys[i], ValueText(params[keys[i]])>>]

\* the entries of queryParams after the five if statements
QueryParams(params) ==
    LET Sent(k) == Has(params, k) /\ IsTruthy(params[k])
        keys == SelectSeq(ReportKeys, Sent)
    IN [i \in 1..Len(keys) |-> <<keys[i], ValueText(params[keys[i]])>>]

\* queryParams.toString()
RECURSIVE QueryString(_)
QueryString(entries) ==
    IF entries = <<>> THEN ""
    ELSE IF Len(entries) = 1 THEN entries[1][1] \o "=" \o entries[1][2]
    ELSE entries[1][1] \o "=" \o entries[1][2] \o "&" \o QueryString(Tail(entries))

\* getReports(params): endpoint and options handed to request()
getReports(params) ==
    LET queryString == QueryString(QueryParams(params))
    IN [endpoint |-> "/financial/reports" \o (IF queryString # "" THEN "?" \o queryString ELSE ""),
        options |-> EmptyObject]

\* parseInt(text) for what the year and limit fields may hold
parseInt(text) ==
    CASE text = "" -> NaN
      [] text = "10" -> Num(10)
      [] text = "100" -> Num(100)
      [] text = "2023" -> Num(2023)

\* the params object loadData builds from the filter fields
loadDataParams(symbol, type, year, limit) ==
    [symbol |-> Str(symbol),
     report_type |-> Str(type),
     report_year |-> IF year # "" THEN parseInt(year) ELSE JNull,
     limit |-> parseInt(limit)]

\* what the filter fields of the management page may hold (symbol after trim)
FilterFields ==
    [symbol : {"", "FPT", "A B"}, type : {"", "annual"}, year : {"", "2023"}, limit : {"", "10"}]

\* what a filter may hold for each key
FilterValues(k) ==
    CASE k = "symbol" -> {Str(""), Str("FPT")}
      [] k = "report_type" -> {Str("annual")}
      [] k = "report_year" -> {JNull, Num(2023)}
      [] k = "limit" -> {Num(0), Num(10)}
      [] k = "offset" -> {Num(0), Num(5)}

\* the filter records passed to getReports: any subset of the keys, and
\* every record loadData builds
Filters ==
    UNION {{f \in [keys -> UNION {FilterValues(k) : k \in keys}] :
                \A k \in keys : f[k] \in FilterValues(k)} :
           keys \in SUBSET {ReportKeys[i] : i \in 1..Len(ReportKeys)}}
    \cup {loadDataParams(f.symbol, f.type, f.year, f.limit) : f \in FilterFields}

\* options a caller may hand to request(endpoint, options)
CallerOptions ==
    {EmptyObject,
     [method |-> "DELETE"],
     [baseURL |-> "http://localhost:8000"],
     [headers |-> ("Authorization" :> "Bearer token")],
     [headers |-> ("Content-Type" :> "text/plain")],
     [method |-> "POST", headers |-> ("Authorization" :> "Bearer token" @@ "Accept" :> "text/csv")]}

\* JSON bodies the backend may send for such a call, by the response's ok
ClientBodies(response) ==
    IF ~response.ok THEN {[detail |-> "Not <found>"], EmptyObject, JNull}
    ELSE {EmptyObject, [status |-> "healthy"]}

-----------------------------------------------------------------------------
\* collection.js: the symbol rows.

\* A row is its data-index and the disabled attributes of its controls.  What
\* its input and select hold is read by getSymbolsData only, on a click of the
\* start button; that button and those controls are enabled and disabled
\* together, so at each click they may hold anything the user can enter.

Sources == {"cafef", "vietstock"}
SymbolInputs == {"", " ", " fpt "}

\* what the input and the select of one row hold
RowContents == [value : SymbolInputs, source : Sources]

\* what the rows of the container hold, one entry per row
Contents(n) == [1..n -> RowContents]

\* value.trim().toUpperCase()
TrimUpper(value) ==
    CASE value = "" -> ""
      [] value = " " -> ""
      [] value = " fpt " -> "FPT"
      [] value = "vnm " -> "VNM"

\* rows that hold two different symbols of the supported source, or nothing
SymbolContents(n) == [1..n -> [value : {"", " fpt ", "vnm "}, source : {"cafef"}]]

\* createSymbolRow(index): empty input, first option selected, nothing disabled
createSymbolRow(index) ==
    [index |-> index, inputDisabled |-> FALSE, removeDisabled |-> FALSE]

\* updateRemoveButtons(): every remove button disabled iff one row is left
updateRemoveButtons(rs) ==
    [i \in 1..Len(rs) |-> [rs[i] EXCEPT !.removeDisabled = (Len(rs) = 1)]]

RowIndexes(rs) == {rs[i].index : i \in 1..Len(rs)}

\* row.remove() for the row the timer holds
RemoveRow(rs, index) ==
    LET Keep(r) == r.index # index IN SelectSeq(rs, Keep)

\* getSymbolsData(): the rows with a non-blank symbol, in document order
getSymbolsData(content) ==
    LET Collected(r) == TrimUpper(r.value) # ""
        Target(r) == [symbol |-> TrimUpper(r.value), source |-> r.source]
        collected == SelectSeq(content, Collected)
    IN [i \in 1..Len(collected) |-> Target(collected[i])]

\* setScrapingState(scraping): the three buttons
ScrapingControls(scraping) ==
    [startDisabled |-> scraping, stopDisabled |-> ~scraping, addDisabled |-> scraping]

\* setScrapingState(scraping): the inputs and selects of every row
ScrapingRows(rs, scraping) ==
    [i \in 1..Len(rs) |-> [rs[i] EXCEPT !.inputDisabled = scraping]]

-----------------------------------------------------------------------------
\* collection.js: handleStartScrape.

Unsupported(symbolsData) ==
    LET NotCafef(s) == s.source # "cafef" IN SelectSeq(symbolsData, NotCafef)

\* unsupported.map(s => s.source)
SourcesOf(targets) == [i \in 1..Len(targets) |-> targets[i].source]
\* symbolsData.map(s => s.symbol)
SymbolsOf(targets) == [i \in 1..Len(targets) |-> targets[i].symbol]

\* validation without its first check
VerdictNoEmptyCheck(symbolsData) ==
    IF Len(Unsupported(symbolsData)) > 0 THEN "unsupported" ELSE "accepted"

\* validation without its second check
VerdictNoSourceCheck(symbolsData) ==
    IF Len(symbolsData) = 0 THEN "empty" ELSE "accepted"

\* the two validation checks, in order
StartVerdict(symbolsData) ==
    IF Len(symbolsData) = 0 THEN "empty"
    ELSE IF Len(Unsupported(symbolsData)) > 0 THEN "unsupported"
    ELSE "accepted"

NoSymbolsEntry == Entry("error", <<"No symbols entered">>)
NoSymbolsToast == showToast(<<"error">>, <<"Please enter at least one symbol">>)

UnsupportedEntry(symbolsData) ==
    Entry("error", <<"Unsupported source: ">> \o Join(SourcesOf(Unsupported(symbolsData))))
UnsupportedToast == showToast(<<"error">>, <<"Only CafeF source is currently supported">>)

\* the log lines written between setScrapingState(true) and the await
StartEntries(symbolsData) ==
    <<Entry("info", <<"Starting scrape for ", NumStr(Len(symbolsData)), " symbol(s)...">>)>>
    \o (IF Len(symbolsData) = 1
        THEN <<Entry("info", <<"Scraping ", symbolsData[1].symbol, "...">>)>>
        ELSE <<Entry("info", <<"Bulk scraping ", NumStr(Len(symbolsData)), " symbols...">>)>>)

\* a start that scrapes the first target only
StartCallFirstOnly(symbolsData, headless) ==
    scrapeSingle(symbolsData[1].symbol, headless)

\* the API call of the try block
StartCall(symbolsData, headless) ==
    IF Len(symbolsData) = 1 THEN scrapeSingle(symbolsData[1].symbol, headless)
    ELSE scrapeBulk(SymbolsOf(symbolsData), headless)

\* the two marks that open a result line
CheckMark == "(check mark) "
CrossMark == "(cross mark) "

\* the line for one entry of result.results
BulkResultEntry(r) ==
    IF Truthy(r, "success")
    THEN Entry("success", <<CheckMark, TplStr(r, "symbol"), ": ", TplNum(r, "reports_count"),
                            " reports (", TplNum(r, "created_count"), " created, ",
                            TplNum(r, "updated_count"), " updated)">>)
    ELSE Entry("error", <<CrossMark, TplStr(r, "symbol"), ": ", TplStr(r, "message")>>)

\* the log lines written after the await, from what request() returned;
\* an exception out of the try block reaches the catch block instead
ResultEntries(symbolsData, result) ==
    IF Has(result, "raised")
    THEN <<Entry("error", <<"Scraping failed: ">> \o result.raised)>>
    ELSE IF Len(symbolsData) = 1
    THEN IF Truthy(result, "success")
         THEN <<Entry("success", <<CheckMark, symbolsData[1].symbol, ": ", TplStr(result, "message"),
                                   " (", TplNum(result, "reports_count"), " reports, ",
                                   TplNum(result, "created_count"), " created, ",
                                   TplNum(result, "updated_count"), " updated)">>)>>
         ELSE <<Entry("error", <<CrossMark, symbolsData[1].symbol, ": ", TplStr(result, "message")>>)>>
    ELSE <<Entry("info", <<"Bulk scrape completed: ", TplNum(result, "successful_symbols"), "/",
                           TplNum(result, "total_symbols"), " successful">>)>>
         \o (IF Has(result, "results")
             THEN [k \in 1..Len(result.results) |-> BulkResultEntry(result.results[k])]
             ELSE <<>>)

\* the toast shown after the await
ResultToast(symbolsData, result) ==
    IF Has(result, "raised")
    THEN showToast(<<"error">>, <<"Scraping operation failed">>)
    ELSE IF Len(symbolsData) = 1
    THEN IF Truthy(result, "success")
         THEN showToast(<<"success">>, <<"Successfully scraped ", symbolsData[1].symbol>>)
         ELSE showToast(<<"error">>, <<"Failed to scrape ", symbolsData[1].symbol>>)
    ELSE showToast(<<"success">>, <<"Completed: ", TplNum(result, "successful_symbols"), "/",
                                    TplNum(result, "total_symbols"), " symbols">>)

-----------------------------------------------------------------------------
\* The page once its scripts ran and DOMContentLoaded fired: loadConfig is
\* awaiting its fetch, the container holds the one row of the page markup and
\* the logger wrote its two opening lines.  The buttons start as
\* setScrapingState(false) leaves them.

\* the elements the detail page writes, as the markup leaves them
NoContainers ==
    [e \in {"pageTitle", "infoSymbol", "balance-sheet", "income-statement", "cash-flow"} |-> ""]

\* the four counter elements of the management page, as the markup leaves them
NoStatCards ==
    [e \in {"totalReports", "quarterlyReports", "annualReports", "auditedReports"} |-> "markup"]

\* The management page is not open: its script did not run, and its
\* variables hold what their declarations give them.
ManagementClosed ==
    /\ currentData = Array(<<>>)
    /\ filteredData = Array(<<>>)
    /\ deleteTargetId = JNull
    /\ deleteModal = [show |-> FALSE, detail |-> <<>>]
    /\ dataTableBody = [body |-> "markup", rows |-> <<>>, showingCount |-> "0"]
    /\ statCards = NoStatCards
    /\ opened = <<>>

\* The detail page is not open.
DetailClosed ==
    /\ reportId = JNull
    /\ detailPc = "parsed"
    /\ containers = NoContainers
    /\ activeTab = "balance-sheet"

OtherPagesClosed == DetailClosed /\ ManagementClosed

InitEntries ==
    <<Entry("info", <<"System initialized and ready">>),
      Entry("info", <<"Add symbols and click Start to begin scraping">>)>>

Init ==
    /\ API_BASE_URL = DefaultBaseUrl
    /\ configLoaded = FALSE
    /\ configPc = "fetch"
    /\ loadConfigRuns = 1
    /\ logger = LogAll(NewLogger, InitEntries)
    /\ clearedView = None
    /\ rows = updateRemoveButtons(<<createSymbolRow(0)>>)
    /\ symbolCounter = 0
    /\ removeTimers = {}
    /\ isScraping = FALSE
    /\ headlessMode = TRUE
    /\ controls = ScrapingControls(FALSE)
    /\ orchs = <<>>
    /\ fetchCalls = <<>>
    /\ returned = None
    /\ lastToast = None
    /\ OtherPagesClosed

-----------------------------------------------------------------------------
\* loadConfig.  When it returns, configPromise resolves and the requests
\* awaiting it resume in the same microtask checkpoint, in the order they
\* began to wait: each builds its URL and issues its fetch.

\* a configPromise that resolves without resuming the requests awaiting it
ResumesNone(i) == FALSE

\* request i is suspended on await configPromise
Waiting(i) == orchs[i].pc = "awaitConfig"

WaitingCalls(base) ==
    LET IsWaiting(o) == o.pc = "awaitConfig"
        waiting == SelectSeq(orchs, IsWaiting)
    IN [k \in 1..Len(waiting) |->
           FetchCall(base, waiting[k].call.endpoint, waiting[k].call.options)]

ConfigDone(base) ==
    /\ API_BASE_URL' = base
    /\ configLoaded' = TRUE
    /\ configPc' = "done"
    /\ orchs' = [i \in 1..Len(orchs) |->
                    IF Waiting(i) THEN [orchs[i] EXCEPT !.pc = "fetch"] ELSE orchs[i]]
    /\ fetchCalls' = fetchCalls \o WaitingCalls(base)
    /\ UNCHANGED <<pageVars, loadConfigRuns, logger, clearedView, rowVars, isScraping, controls,
                   returned, lastToast>>

\* fetch('/api/config') rejects: the catch block
ConfigFetchRejects ==
    /\ configPc = "fetch"
    /\ ConfigDone(API_BASE_URL)

\* a loadConfig that sets its flag as soon as the response arrives
ConfigFlagSetEarly ==
    /\ configPc = "fetch"
    /\ configPc' = "json"
    /\ configLoaded' = TRUE
    /\ UNCHANGED <<pageVars, API_BASE_URL, loadConfigRuns, logger, clearedView, rowVars,
                   isScraping, controls, orchs, fetchCalls, returned, lastToast>>

\* fetch('/api/config') resolves with a response
ConfigFetchResponds ==
    /\ configPc = "fetch"
    /\ configPc' = "json"
    /\ UNCHANGED <<pageVars, API_BASE_URL, configLoaded, loadConfigRuns, logger, clearedView, rowVars,
                   isScraping, controls, orchs, fetchCalls, returned, lastToast>>

\* response.json() rejects: the catch block
ConfigJsonRejects ==
    /\ configPc = "json"
    /\ ConfigDone(API_BASE_URL)

\* response.json() resolves with the parsed body
ConfigJsonResolves ==
    /\ configPc = "json"
    /\ \E config \in ConfigBodies : ConfigDone(LoadConfigAssign(API_BASE_URL, config))

-----------------------------------------------------------------------------
\* The symbol rows: the user's edits, addSymbolRow, removeSymbolRow and its timer.

addSymbolRow ==
    /\ ~controls.addDisabled
    /\ symbolCounter < MaxAdds
    /\ symbolCounter' = symbolCounter + 1
    /\ rows' = updateRemoveButtons(Append(rows, createSymbolRow(symbolCounter + 1)))
    /\ UNCHANGED <<pageVars, configVars, logger, clearedView, headlessMode, removeTimers, isScraping,
                   controls, orchs, fetchCalls, returned, lastToast>>

\* a click on the enabled remove button of row index
removeSymbolRow ==
    \E i \in 1..Len(rows) :
        /\ ~rows[i].removeDisabled
        /\ removeTimers' = IF Len(rows) <= 1 THEN removeTimers
                           ELSE removeTimers \cup {rows[i].index}
        /\ UNCHANGED <<pageVars, configVars, logger, clearedView, rows, headlessMode, symbolCounter,
                       isScraping, controls, orchs, fetchCalls, returned, lastToast>>

\* the 300 ms timer of removeSymbolRow fires
RemoveTimerFires ==
    \E index \in removeTimers :
        /\ removeTimers' = removeTimers \ {index}
        /\ rows' = updateRemoveButtons(RemoveRow(rows, index))
        /\ UNCHANGED <<pageVars, configVars, logger, clearedView, headlessMode, symbolCounter,
                       isScraping, controls, orchs, fetchCalls, returned, lastToast>>

-----------------------------------------------------------------------------
\* handleStartScrape, up to its await.

\* the start is rejected: no symbols
StartRejectedEmpty(content) ==
    /\ StartVerdict(getSymbolsData(content)) = "empty"
    /\ Len(logger.logs) < MaxLog
    /\ logger' = Log(logger, NoSymbolsEntry.type, NoSymbolsEntry.message)
    /\ lastToast' = NoSymbolsToast
    /\ UNCHANGED <<pageVars, configVars, clearedView, rowVars, isScraping, controls, orchs, fetchCalls,
                   returned>>

\* the start is rejected: a source other than cafef
StartRejectedUnsupported(content) ==
    /\ StartVerdict(getSymbolsData(content)) = "unsupported"
    /\ Len(logger.logs) < MaxLog
    /\ LET entry == UnsupportedEntry(getSymbolsData(content))
       IN logger' = Log(logger, entry.type, entry.message)
    /\ lastToast' = UnsupportedToast
    /\ UNCHANGED <<pageVars, configVars, clearedView, rowVars, isScraping, controls, orchs, fetchCalls,
                   returned>>

\* the start passes validation: setScrapingState(true), the opening log lines
\* and the API call, which waits for the configuration or issues its fetch
StartAccepted(content) ==
    /\ StartVerdict(getSymbolsData(content)) = "accepted"
    /\ Len(orchs) < MaxStarts
    /\ LET symbolsData == getSymbolsData(content)
           call == StartCall(symbolsData, headlessMode)
           gate == RequestGate(configLoaded)
       IN /\ orchs' = Append(orchs, [pc |-> gate, symbolsData |-> symbolsData, call |-> call,
                                      response |-> None])
          /\ fetchCalls' = IF gate = "fetch"
                           THEN Append(fetchCalls,
                                       FetchCall(API_BASE_URL, call.endpoint, call.options))
                           ELSE fetchCalls
          /\ logger' = LogAll(logger, StartEntries(symbolsData))
    /\ isScraping' = TRUE
    /\ controls' = ScrapingControls(TRUE)
    /\ rows' = ScrapingRows(rows, TRUE)
    /\ UNCHANGED <<pageVars, configVars, clearedView, headlessMode, symbolCounter, removeTimers,
                   returned, lastToast>>

\* a click on the enabled start button, the rows holding content
StartClick(content) ==
    /\ ~controls.startDisabled
    /\ \/ StartRejectedEmpty(content)
       \/ StartRejectedUnsupported(content)
       \/ StartAccepted(content)

handleStartScrape == \E content \in Contents(Len(rows)) : StartClick(content)

\* the same click on rows that hold different symbols
handleStartScrapeSymbols == \E content \in SymbolContents(Len(rows)) : StartClick(content)

-----------------------------------------------------------------------------
\* request() after its fetch was issued, and handleStartScrape after its await.

\* an orchestration whose handler returned: its locals are gone
Finished == [pc |-> "done"]

\* the result branch of the try block without the finally block
CompleteWithoutFinally(i, result) ==
    /\ orchs' = [orchs EXCEPT ![i] = Finished]
    /\ returned' = result
    /\ logger' = LogAll(logger, ResultEntries(orchs[i].symbolsData, result))
    /\ lastToast' = ResultToast(orchs[i].symbolsData, result)
    /\ UNCHANGED <<pageVars, configVars, clearedView, rowVars, isScraping, controls, fetchCalls>>

\* request() returned result to orchestration i: the result branch of the try
\* block, then the finally block
Complete(i, result) ==
    /\ orchs' = [orchs EXCEPT ![i] = Finished]
    /\ returned' = result
    /\ logger' = LogAll(logger, ResultEntries(orchs[i].symbolsData, result))
    /\ lastToast' = ResultToast(orchs[i].symbolsData, result)
    /\ isScraping' = FALSE
    /\ controls' = ScrapingControls(FALSE)
    /\ rows' = ScrapingRows(rows, FALSE)
    /\ UNCHANGED <<pageVars, configVars, clearedView, headlessMode, symbolCounter, removeTimers,
                   fetchCalls>>

\* fetch(url, config) rejects
FetchRejects ==
    \E i \in 1..Len(orchs) :
        /\ orchs[i].pc = "fetch"
        /\ Complete(i, RequestOnReject)

\* fetch(url, config) resolves with a response
FetchResponds ==
    \E i \in 1..Len(orchs), response \in Responses :
        /\ orchs[i].pc = "fetch"
        /\ orchs' = [orchs EXCEPT ![i].pc = "json", ![i].response = response]
        /\ UNCHANGED <<pageVars, configVars, logger, clearedView, rowVars, isScraping, controls,
                       fetchCalls, returned, lastToast>>

\* response.json() rejects
JsonRejects ==
    \E i \in 1..Len(orchs) :
        /\ orchs[i].pc = "json"
        /\ Complete(i, RequestOnParseError)

\* response.json() resolves with the parsed body
JsonResolves ==
    \E i \in 1..Len(orchs) :
        /\ orchs[i].pc = "json"
        /\ \E data \in ScrapeBodies(orchs[i].call, orchs[i].response) :
              Complete(i, RequestOnData(orchs[i].response, data))

-----------------------------------------------------------------------------
\* handleStopScrape and handleClearLogs.

StopEntry == Entry("warning", <<"Stop requested - completing current operation...">>)

\* a stop that aborts the requests in flight
StopCancelsRequests ==
    /\ ~controls.stopDisabled
    /\ logger' = Log(logger, StopEntry.type, StopEntry.message)
    /\ isScraping' = FALSE
    /\ controls' = ScrapingControls(FALSE)
    /\ rows' = ScrapingRows(rows, FALSE)
    /\ orchs' = [i \in 1..Len(orchs) |-> Finished]
    /\ UNCHANGED <<pageVars, configVars, clearedView, headlessMode, symbolCounter, removeTimers,
                   fetchCalls, returned, lastToast>>

handleStopScrape ==
    /\ ~controls.stopDisabled
    /\ logger' = Log(logger, StopEntry.type, StopEntry.message)
    /\ isScraping' = FALSE
    /\ controls' = ScrapingControls(FALSE)
    /\ rows' = ScrapingRows(rows, FALSE)
    /\ UNCHANGED <<pageVars, configVars, clearedView, headlessMode, symbolCounter, removeTimers, orchs,
                   fetchCalls, returned, lastToast>>

\* a clear button that empties the log and writes no line
ClearWithoutNote ==
    /\ clearedView' = Clear(logger)
    /\ logger' = Clear(logger)
    /\ UNCHANGED <<pageVars, configVars, rowVars, isScraping, controls, orchs, fetchCalls, returned, lastToast>>

handleClearLogs ==
    /\ clearedView' = Clear(logger)
    /\ logger' = Log(Clear(logger), "info", <<"Console cleared">>)
    /\ UNCHANGED <<pageVars, configVars, rowVars, isScraping, controls, orchs, fetchCalls, returned, lastToast>>

-----------------------------------------------------------------------------

\* The page while the configuration resolves; the user adds rows and removes none.
Next ==
    \/ ConfigFetchRejects
    \/ ConfigFetchResponds
    \/ ConfigJsonRejects
    \/ ConfigJsonResolves
    \/ addSymbolRow
    \/ handleStartScrape
    \/ FetchRejects
    \/ FetchResponds
    \/ JsonRejects
    \/ JsonResolves
    \/ handleStopScrape
    \/ handleClearLogs

Spec == Init /\ [][Next]_vars

\* The page once the configuration fetch was rejected; the user adds and removes rows.
InitRows ==
    /\ API_BASE_URL = DefaultBaseUrl
    /\ configLoaded = TRUE
    /\ configPc = "done"
    /\ loadConfigRuns = 1
    /\ logger = LogAll(NewLogger, InitEntries)
    /\ clearedView = None
    /\ rows = updateRemoveButtons(<<createSymbolRow(0)>>)
    /\ headlessMode = TRUE
    /\ symbolCounter = 0
    /\ removeTimers = {}
    /\ isScraping = FALSE
    /\ controls = ScrapingControls(FALSE)
    /\ orchs = <<>>
    /\ fetchCalls = <<>>
    /\ returned = None
    /\ lastToast = None
    /\ OtherPagesClosed

NextRows ==
    \/ addSymbolRow
    \/ removeSymbolRow
    \/ RemoveTimerFires
    \/ handleStartScrape
    \/ FetchRejects
    \/ FetchResponds
    \/ JsonRejects
    \/ JsonResolves
    \/ handleStopScrape
    \/ handleClearLogs

SpecRows == InitRows /\ [][NextRows]_vars

\* The promises of the scrape calls: each one the browser holds settles.
Settles == FetchRejects \/ FetchResponds \/ JsonRejects \/ JsonResolves

\* The page when the configuration endpoint is unreachable: fetch('/api/config')
\* rejects, and the jobs of settled promises are run.
NextUnreachable ==
    \/ ConfigFetchRejects
    \/ handleStartScrape
    \/ FetchRejects
    \/ FetchResponds
    \/ JsonRejects
    \/ JsonResolves
    \/ handleStopScrape
    \/ handleClearLogs

SpecUnreachable ==
    Init /\ [][NextUnreachable]_vars /\ WF_vars(ConfigFetchRejects) /\ WF_vars(Settles)

\* The page with rows that hold different symbols, while the configuration
\* resolves; the log is not cleared and no row is removed.
NextSymbols ==
    \/ ConfigFetchRejects
    \/ ConfigFetchResponds
    \/ ConfigJsonRejects
    \/ ConfigJsonResolves
    \/ addSymbolRow
    \/ handleStartScrapeSymbols
    \/ FetchRejects
    \/ FetchResponds
    \/ JsonRejects
    \/ JsonResolves
    \/ handleStopScrape

SpecSymbols == Init /\ [][NextSymbols]_vars

-----------------------------------------------------------------------------
\* The API client on its own: one call of request() by a caller other than the
\* collection page, while the configuration resolves or after it.  Calls share
\* no state but the configuration.

\* request(endpoint, options), up to the await that suspends it
request(call) ==
    /\ orchs = <<>>
    /\ LET gate == RequestGate(configLoaded)
       IN /\ orchs' = <<[pc |-> gate, call |-> call, response |-> None]>>
          /\ fetchCalls' = IF gate = "fetch"
                           THEN Append(fetchCalls,
                                       FetchCall(API_BASE_URL, call.endpoint, call.options))
                           ELSE fetchCalls
    /\ UNCHANGED <<pageVars, configVars, logger, clearedView, rowVars, isScraping, controls, returned,
                   lastToast>>

\* api.getReports(params), by loadData or another caller
getReportsCall == \E params \in Filters : request(getReports(params))

\* api.request(endpoint, options) with the caller's own options
requestCall ==
    \E options \in CallerOptions : request([endpoint |-> "/health", options |-> options])

\* request() returns result to a caller that only keeps it
Return(i, result) ==
    /\ orchs' = [orchs EXCEPT ![i] = Finished]
    /\ returned' = result
    /\ UNCHANGED <<pageVars, configVars, logger, clearedView, rowVars, isScraping, controls, fetchCalls,
                   lastToast>>

ClientFetchRejects ==
    \E i \in 1..Len(orchs) :
        /\ orchs[i].pc = "fetch"
        /\ Return(i, RequestOnReject)

ClientJsonRejects ==
    \E i \in 1..Len(orchs) :
        /\ orchs[i].pc = "json"
        /\ Return(i, RequestOnParseError)

ClientJsonResolves ==
    \E i \in 1..Len(orchs) :
        /\ orchs[i].pc = "json"
        /\ \E data \in ClientBodies(orchs[i].response) :
              Return(i, RequestOnData(orchs[i].response, data))

NextClient ==
    \/ ConfigFetchRejects
    \/ ConfigFetchResponds
    \/ ConfigJsonRejects
    \/ ConfigJsonResolves
    \/ getReportsCall
    \/ requestCall
    \/ ClientFetchRejects
    \/ FetchResponds
    \/ ClientJsonRejects
    \/ ClientJsonResolves

SpecClient == Init /\ [][NextClient]_vars

-----------------------------------------------------------------------------
\* The pages other than the collection page call request() through the same
\* client.  A request in flight carries the handler that awaits it; a request
\* that returned keeps its call and what it gave that handler.

\* the requests of os with one more, made by caller
WithRequest(os, call, caller) ==
    Append(os, [pc |-> RequestGate(configLoaded), call |-> call, response |-> None,
                caller |-> caller])

\* the fetches of fs with the one request() issues for call, once it is past its gate
WithFetch(fs, call) ==
    IF RequestGate(configLoaded) = "fetch"
    THEN Append(fs, FetchCall(API_BASE_URL, call.endpoint, call.options))
    ELSE fs

\* request i of os returned result to the handler awaiting it
Settled(os, i, result) ==
    [os EXCEPT ![i] = [pc |-> "done", call |-> os[i].call, caller |-> os[i].caller,
                       result |-> result]]

\* api.js: the report endpoints
getReportById(id) ==
    [endpoint |-> "/financial/reports/" \o ValueText(id), options |-> EmptyObject]

getBalanceSheetItems(id) ==
    [endpoint |-> "/financial/reports/" \o ValueText(id) \o "/balance-sheet",
     options |-> EmptyObject]

getIncomeStatementItems(id) ==
    [endpoint |-> "/financial/reports/" \o ValueText(id) \o "/income-statement",
     options |-> EmptyObject]

getCashFlowItems(id) ==
    [endpoint |-> "/financial/reports/" \o ValueText(id) \o "/cash-flow",
     options |-> EmptyObject]

-----------------------------------------------------------------------------
\* detail.js: the report detail page.

\* what urlParams.get('id') may give: null, the empty text, an id
ReportIds == {JNull, Str(""), Str("7")}

\* the three statements, in the order loadReportData loads them
Statements == <<"balance-sheet", "income-statement", "cash-flow">>

\* the API call of loadBalanceSheet, loadIncomeStatement and loadCashFlow
StatementCall(k, id) ==
    CASE k = 1 -> getBalanceSheetItems(id)
      [] k = 2 -> getIncomeStatementItems(id)
      [] k = 3 -> getCashFlowItems(id)

\* text.toUpperCase() for the symbols a report may hold
toUpperCase(text) ==
    CASE text = "fpt" -> "FPT"
      [] OTHER -> text

\* a report as the backend sends it
Report(id) ==
    [id |-> id, symbol |-> "fpt", company_name |-> "FPT CORP", report_name |-> "BCTC",
     report_type |-> "annual", report_year |-> 2023, report_quarter |-> JNull,
     is_audited |-> TRUE, is_reviewed |-> FALSE, report_url |-> "u"]

StatementItem ==
    [item_name |-> "Cash", item_code |-> "110", item_value |-> 5, sign |-> 1, level |-> 1]

\* JSON bodies the backend may send for a call of the detail page
DetailBodies(caller, response) ==
    IF ~response.ok THEN {[detail |-> "Not <found>"], EmptyObject, JNull}
    ELSE IF caller = "loadReportData" THEN {Report(7), EmptyObject, JNull}
    ELSE {Array(<<>>), Array(<<StatementItem>>), EmptyObject, JNull}

\* displayReportInfo(report): the elements it writes, or the TypeError it raises
\* at report.symbol.toUpperCase(); the other info fields are written from the
\* same report and no handler reads them
displayReportInfo(els, report) ==
    IF report = JNull THEN Raised(<<"Cannot read properties of null (reading 'symbol')">>)
    ELSE IF ~Has(report, "symbol")
    THEN Raised(<<"Cannot read properties of undefined (reading 'toUpperCase')">>)
    ELSE [els EXCEPT !["pageTitle"] = toUpperCase(report.symbol) \o " - Financial Report",
                     !["infoSymbol"] = toUpperCase(report.symbol)]

\* what a statement loader writes to its container from what request() returned,
\* or the TypeError it raises at result.data.length
StatementShown(result) ==
    IF ~result.success THEN [text |-> "none"]
    ELSE IF result.data = JNull
    THEN Raised(<<"Cannot read properties of null (reading 'length')">>)
    ELSE IF Has(result.data, "array") /\ Len(result.data.array) > 0 THEN [text |-> "table"]
    ELSE [text |-> "none"]

\* result.error || 'Unknown error'
ErrorOrUnknown(result) == IF result.error = <<"">> THEN <<"Unknown error">> ELSE result.error

\* the catch block of loadReportData
DetailCatch(i, result, raised) ==
    /\ orchs' = Settled(orchs, i, result)
    /\ lastToast' = showToast(<<"Error loading report: ">> \o raised.raised, <<"error">>)
    /\ detailPc' = "settled"
    /\ UNCHANGED <<containers, fetchCalls>>

\* a statement loader begins: its container shows the loading text and its
\* request is made
StatementBegins(i, result, els, k) ==
    /\ containers' = [els EXCEPT ![Statements[k]] = "loading"]
    /\ orchs' = WithRequest(Settled(orchs, i, result), StatementCall(k, reportId),
                            Statements[k])
    /\ fetchCalls' = WithFetch(fetchCalls, StatementCall(k, reportId))
    /\ UNCHANGED <<lastToast, detailPc>>

\* getReportById returned result to loadReportData
ReportReturns(i, result) ==
    IF result.success
    THEN LET shown == displayReportInfo(containers, result.data)
         IN IF Has(shown, "raised") THEN DetailCatch(i, result, shown)
            ELSE StatementBegins(i, result, shown, 1)
    ELSE /\ orchs' = Settled(orchs, i, result)
         /\ lastToast' = showToast(<<"Failed to load report data: ">> \o ErrorOrUnknown(result),
                                   <<"error">>)
         /\ detailPc' = "settled"
         /\ UNCHANGED <<containers, fetchCalls>>

\* the request of statement k returned result to its loader; loadReportData
\* goes on to the next loader or returns
StatementReturns(i, result, k) ==
    LET shown == StatementShown(result)
    IN IF Has(shown, "raised") THEN DetailCatch(i, result, shown)
       ELSE IF k < 3
       THEN StatementBegins(i, result, [containers EXCEPT ![Statements[k]] = shown.text], k + 1)
       ELSE /\ containers' = [containers EXCEPT ![Statements[k]] = shown.text]
            /\ orchs' = Settled(orchs, i, result)
            /\ detailPc' = "settled"
            /\ UNCHANGED <<lastToast, fetchCalls>>

\* the position of a statement in Statements
StatementIndex(caller) == CHOOSE k \in 1..3 : Statements[k] = caller

\* request() returned result to the handler of the detail page that awaits request i
DetailReturn(i, result) ==
    /\ returned' = result
    /\ IF orchs[i].caller = "loadReportData" THEN ReportReturns(i, result)
       ELSE StatementReturns(i, result, StatementIndex(orchs[i].caller))
    /\ UNCHANGED <<configVars, logger, clearedView, rowVars, isScraping, controls, reportId,
                   activeTab, manageVars>>

\* loadReportData without its test of reportId
LoadWithoutIdTest ==
    /\ detailPc = "parsed"
    /\ detailPc' = "loading"
    /\ orchs' = WithRequest(orchs, getReportById(reportId), "loadReportData")
    /\ fetchCalls' = WithFetch(fetchCalls, getReportById(reportId))
    /\ UNCHANGED <<configVars, logger, clearedView, rowVars, isScraping, controls, returned,
                   lastToast, reportId, containers, activeTab, manageVars>>

\* DOMContentLoaded of the detail page: loadReportData up to its first await
loadReportData ==
    /\ detailPc = "parsed"
    /\ IF ~IsTruthy(reportId)
       THEN /\ lastToast' = showToast(<<"No report ID provided">>, <<"error">>)
            /\ detailPc' = "redirecting"
            /\ UNCHANGED <<orchs, fetchCalls>>
       ELSE /\ detailPc' = "loading"
            /\ orchs' = WithRequest(orchs, getReportById(reportId), "loadReportData")
            /\ fetchCalls' = WithFetch(fetchCalls, getReportById(reportId))
            /\ UNCHANGED lastToast
    /\ UNCHANGED <<configVars, logger, clearedView, rowVars, isScraping, controls, returned,
                   reportId, containers, activeTab, manageVars>>

\* the 2000 ms timer of loadReportData fires: the browser leaves for /management
RedirectTimerFires ==
    /\ detailPc = "redirecting"
    /\ detailPc' = "left"
    /\ UNCHANGED <<configVars, logger, clearedView, rowVars, isScraping, controls, orchs,
                   fetchCalls, returned, lastToast, reportId, containers, activeTab, manageVars>>

\* a click on a tab of the statements
switchFinancialTab ==
    /\ detailPc \notin {"parsed", "left"}
    /\ \E k \in 1..3 :
          /\ activeTab # Statements[k]
          /\ activeTab' = Statements[k]
    /\ UNCHANGED <<configVars, logger, clearedView, rowVars, isScraping, controls, orchs,
                   fetchCalls, returned, lastToast, reportId, detailPc, containers, manageVars>>

DetailFetchRejects ==
    \E i \in 1..Len(orchs) :
        /\ orchs[i].pc = "fetch"
        /\ DetailReturn(i, RequestOnReject)

DetailJsonRejects ==
    \E i \in 1..Len(orchs) :
        /\ orchs[i].pc = "json"
        /\ DetailReturn(i, RequestOnParseError)

DetailJsonResolves ==
    \E i \in 1..Len(orchs) :
        /\ orchs[i].pc = "json"
        /\ \E data \in DetailBodies(orchs[i].caller, orchs[i].response) :
              DetailReturn(i, RequestOnData(orchs[i].response, data))

\* The detail page once its scripts ran, for each id the URL may carry.
InitDetail ==
    /\ API_BASE_URL = DefaultBaseUrl
    /\ configLoaded = FALSE
    /\ configPc = "fetch"
    /\ loadConfigRuns = 1
    /\ logger = NewLogger
    /\ clearedView = None
    /\ rows = <<>>
    /\ headlessMode = TRUE
    /\ symbolCounter = 0
    /\ removeTimers = {}
    /\ isScraping = FALSE
    /\ controls = ScrapingControls(FALSE)
    /\ orchs = <<>>
    /\ fetchCalls = <<>>
    /\ returned = None
    /\ lastToast = None
    /\ reportId \in ReportIds
    /\ detailPc = "parsed"
    /\ containers = NoContainers
    /\ activeTab = "balance-sheet"
    /\ ManagementClosed

NextDetail ==
    \/ ConfigFetchRejects
    \/ ConfigFetchResponds
    \/ ConfigJsonRejects
    \/ ConfigJsonResolves
    \/ loadReportData
    \/ RedirectTimerFires
    \/ switchFinancialTab
    \/ DetailFetchRejects
    \/ FetchResponds
    \/ DetailJsonRejects
    \/ DetailJsonResolves

SpecDetail == InitDetail /\ [][NextDetail]_vars

-----------------------------------------------------------------------------
\* The data management page (the script after api.js).

\* api.js: deleteReport(id) and getStats()
deleteReport(id) ==
    [endpoint |-> "/financial/reports/" \o ValueText(id), options |-> [method |-> "DELETE"]]

getStats == [endpoint |-> "/financial/stats", options |-> EmptyObject]

\* api.js: formatReportPeriod, as the parts of its template literal
formatReportPeriod(reportType, year, quarter) ==
    IF reportType = "annual" THEN <<ToString(year), " (Annual)">>
    ELSE IF reportType = "quarterly" /\ IsTruthy(quarter)
    THEN <<"Q", ValueText(quarter), "/", ToString(year)>>
    ELSE <<ToString(year)>>

\* what the filter fields hold when loadData reads them
ManageFilters == {f \in FilterFields : f.type = "" /\ f.year = "" /\ f.limit = "10" /\ f.symbol # "A B"}

\* the fields as clearFilters leaves them
ClearedFilters == [symbol |-> "", type |-> "", year |-> "", limit |-> "100"]

\* the ids window.deleteReport may be called with
DeleteIds == {Num(0), Num(1)}

\* the API call of loadData for the filter fields f
loadDataCall(f) == getReports(loadDataParams(f.symbol, f.type, f.year, f.limit))

\* the second API call of loadStats
loadStatsAllCall == getReports([limit |-> Num(1000)])

\* JSON bodies the backend may send for a call of the management page
ManageBodies(caller, response) ==
    IF ~response.ok THEN {[detail |-> "Not <found>"]}
    ELSE IF caller = "confirmDelete" THEN {[message |-> "Report deleted"]}
    ELSE IF caller = "loadStats" THEN {[total_reports |-> 2]}
    ELSE {Array(<<Report(1)>>), Array(<<Report(1), Report(2)>>)}

\* renderTable() and updateTableInfo(): the rows by report id, and #showingCount
TableOf(data) ==
    [body |-> IF Len(data.array) = 0 THEN "No data found" ELSE "rows",
     rows |-> [k \in 1..Len(data.array) |-> data.array[k].id],
     showingCount |-> ToString(Len(data.array))]

\* showTableLoading()
showTableLoading(table) == [table EXCEPT !.body = "loading", !.rows = <<>>]

\* showTableError(error)
showTableError(table, error) ==
    [table EXCEPT !.body = "error", !.rows = escapeHtml(error)]

\* filteredData.find(r => r.id === id), or null
FindReport(data, id) ==
    LET Is(r) == Has(id, "num") /\ r.id = id.num
        found == SelectSeq(data.array, Is)
    IN IF found = <<>> THEN JNull ELSE found[1]

\* the text window.deleteReport writes to #deleteDetail
DeleteDetail(modal, data, id) ==
    LET report == FindReport(data, id)
    IN IF report = JNull THEN modal.detail
       ELSE <<report.symbol, " - ", report.report_name, " (">>
            \o formatReportPeriod(report.report_type, report.report_year, report.report_quarter)
            \o <<")">>

\* closeModal()
closeModal(modal) == [modal EXCEPT !.show = FALSE]

\* the counters loadStats writes from the list of all reports
StatCounts(cards, data) ==
    LET Quarterly(r) == r.report_type = "quarterly"
        Annual(r) == r.report_type = "annual"
        Audited(r) == r.is_audited
    IN [cards EXCEPT !["quarterlyReports"] = ToString(Len(SelectSeq(data.array, Quarterly))),
                     !["annualReports"] = ToString(Len(SelectSeq(data.array, Annual))),
                     !["auditedReports"] = ToString(Len(SelectSeq(data.array, Audited)))]

\* how many requests the handler caller made
Made(caller) == Cardinality({i \in 1..Len(orchs) : orchs[i].caller = caller})

otherVars == <<configVars, logger, clearedView, rowVars, isScraping, controls, detailVars>>

\* loadData() up to its await, with the filter fields holding f
loadData(f) ==
    /\ dataTableBody' = showTableLoading(dataTableBody)
    /\ orchs' = WithRequest(orchs, loadDataCall(f), "loadData")
    /\ fetchCalls' = WithFetch(fetchCalls, loadDataCall(f))
    /\ UNCHANGED <<otherVars, returned, lastToast, currentData, filteredData, deleteTargetId,
                   deleteModal, statCards, opened>>

\* DOMContentLoaded of the management page: loadData() and loadStats(), each
\* up to its await
ManageLoaded ==
    /\ dataTableBody.body = "markup"
    /\ \E f \in ManageFilters :
          /\ orchs' = WithRequest(WithRequest(orchs, loadDataCall(f), "loadData"),
                                  getStats, "loadStats")
          /\ fetchCalls' = WithFetch(WithFetch(fetchCalls, loadDataCall(f)), getStats)
    /\ dataTableBody' = showTableLoading(dataTableBody)
    /\ UNCHANGED <<otherVars, returned, lastToast, currentData, filteredData, deleteTargetId,
                   deleteModal, statCards, opened>>

\* a click on the apply button
applyFilters ==
    /\ dataTableBody.body # "markup"
    /\ Made("loadData") < MaxLoads
    /\ \E f \in ManageFilters : loadData(f)

\* a click on the clear button
clearFilters ==
    /\ dataTableBody.body # "markup"
    /\ Made("loadData") < MaxLoads
    /\ loadData(ClearedFilters)

\* window.deleteReport(id)
openDeleteModal ==
    /\ dataTableBody.body # "markup"
    /\ Len(opened) < MaxOpens
    /\ \E id \in DeleteIds :
          /\ deleteTargetId' = id
          /\ deleteModal' = [show |-> TRUE, detail |-> DeleteDetail(deleteModal, filteredData, id)]
          /\ opened' = Append(opened, [id |-> id, deleted |-> <<>>])
    /\ UNCHANGED <<otherVars, orchs, fetchCalls, returned, lastToast, currentData, filteredData,
                   dataTableBody, statCards>>

\* a click on the confirm button of the modal: confirmDelete up to its await
confirmDelete ==
    /\ deleteModal.show
    /\ Made("confirmDelete") < MaxDeletes
    /\ IF ~IsTruthy(deleteTargetId)
       THEN UNCHANGED <<orchs, fetchCalls, opened>>
       ELSE /\ orchs' = WithRequest(orchs, deleteReport(deleteTargetId), "confirmDelete")
            /\ fetchCalls' = WithFetch(fetchCalls, deleteReport(deleteTargetId))
            /\ opened' = [opened EXCEPT ![Len(opened)].deleted = Append(@, deleteTargetId)]
    /\ UNCHANGED <<otherVars, returned, lastToast, currentData, filteredData, deleteTargetId,
                   deleteModal, dataTableBody, statCards>>

\* a click on the cancel button, the close button or outside the modal
cancelDelete ==
    /\ deleteModal.show
    /\ deleteModal' = closeModal(deleteModal)
    /\ deleteTargetId' = JNull
    /\ UNCHANGED <<otherVars, orchs, fetchCalls, returned, lastToast, currentData, filteredData,
                   dataTableBody, statCards, opened>>

\* getReports returned result to loadData
LoadDataReturns(i, result) ==
    IF result.success
    THEN /\ currentData' = result.data
         /\ filteredData' = result.data
         /\ dataTableBody' = TableOf(result.data)
         /\ lastToast' = showToast(<<"Loaded ", ToString(Len(result.data.array)), " reports">>,
                                   <<"success">>)
         /\ orchs' = Settled(orchs, i, result)
         /\ UNCHANGED <<fetchCalls, deleteTargetId, deleteModal, statCards>>
    ELSE /\ dataTableBody' = showTableError(dataTableBody, result.error)
         /\ lastToast' = showToast(<<"Failed to load data">>, <<"error">>)
         /\ orchs' = Settled(orchs, i, result)
         /\ UNCHANGED <<fetchCalls, currentData, filteredData, deleteTargetId, deleteModal,
                        statCards>>

\* deleteReport returned result to confirmDelete; on Success closeModal(),
\* loadData() and loadStats() run, each up to its await
DeleteReturns(i, result) ==
    IF result.success
    THEN /\ lastToast' = showToast(<<"Report deleted successfully">>, <<"success">>)
         /\ deleteModal' = closeModal(deleteModal)
         /\ deleteTargetId' = JNull
         /\ dataTableBody' = showTableLoading(dataTableBody)
         /\ \E f \in ManageFilters :
               /\ orchs' = WithRequest(WithRequest(Settled(orchs, i, result),
                                                   loadDataCall(f), "loadData"),
                                       getStats, "loadStats")
               /\ fetchCalls' = WithFetch(WithFetch(fetchCalls, loadDataCall(f)), getStats)
         /\ UNCHANGED <<currentData, filteredData, statCards>>
    ELSE /\ lastToast' = showToast(<<"Failed to delete report">>, <<"error">>)
         /\ orchs' = Settled(orchs, i, result)
         /\ UNCHANGED <<fetchCalls, currentData, filteredData, deleteTargetId, deleteModal,
                        dataTableBody, statCards>>

\* getStats returned result to loadStats, which goes on to its second call
StatsReturns(i, result) ==
    /\ statCards' = IF result.success
                    THEN [statCards EXCEPT !["totalReports"] =
                             IF Has(result.data, "total_reports")
                             THEN ToString(result.data.total_reports) ELSE "0"]
                    ELSE statCards
    /\ orchs' = WithRequest(Settled(orchs, i, result), loadStatsAllCall, "loadStatsAll")
    /\ fetchCalls' = WithFetch(fetchCalls, loadStatsAllCall)
    /\ UNCHANGED <<lastToast, currentData, filteredData, deleteTargetId, deleteModal,
                   dataTableBody>>

\* getReports({limit: 1000}) returned result to loadStats
StatsAllReturns(i, result) ==
    /\ statCards' = IF result.success THEN StatCounts(statCards, result.data) ELSE statCards
    /\ orchs' = Settled(orchs, i, result)
    /\ UNCHANGED <<fetchCalls, lastToast, currentData, filteredData, deleteTargetId,
                   deleteModal, dataTableBody>>

\* request() returned result to the handler of the management page that awaits request i
ManageReturn(i, result) ==
    /\ returned' = result
    /\ CASE orchs[i].caller = "loadData" -> LoadDataReturns(i, result)
         [] orchs[i].caller = "confirmDelete" -> DeleteReturns(i, result)
         [] orchs[i].caller = "loadStats" -> StatsReturns(i, result)
         [] orchs[i].caller = "loadStatsAll" -> StatsAllReturns(i, result)
    /\ UNCHANGED <<otherVars, opened>>

ManageFetchRejects ==
    \E i \in 1..Len(orchs) :
        /\ orchs[i].pc = "fetch"
        /\ ManageReturn(i, RequestOnReject)

ManageJsonResolves ==
    \E i \in 1..Len(orchs) :
        /\ orchs[i].pc = "json"
        /\ \E data \in ManageBodies(orchs[i].caller, orchs[i].response) :
              ManageReturn(i, RequestOnData(orchs[i].response, data))

\* The management page once its scripts ran and the configuration fetch was rejected.
InitManage ==
    /\ API_BASE_URL = DefaultBaseUrl
    /\ configLoaded = TRUE
    /\ configPc = "done"
    /\ loadConfigRuns = 1
    /\ logger = NewLogger
    /\ clearedView = None
    /\ rows = <<>>
    /\ headlessMode = TRUE
    /\ symbolCounter = 0
    /\ removeTimers = {}
    /\ isScraping = FALSE
    /\ controls = ScrapingControls(FALSE)
    /\ orchs = <<>>
    /\ fetchCalls = <<>>
    /\ returned = None
    /\ lastToast = None
    /\ DetailClosed
    /\ ManagementClosed

\* The user works the filters.
NextManage ==
    \/ ManageLoaded
    \/ applyFilters
    \/ clearFilters
    \/ ManageFetchRejects
    \/ FetchResponds
    \/ ManageJsonResolves

SpecManage == InitManage /\ [][NextManage]_vars

\* the three requests of DOMContentLoaded, each returned with a Success
LoadedRequests ==
    LET f == [symbol |-> "", type |-> "", year |-> "", limit |-> "10"]
        Done(call, caller, data) ==
            [pc |-> "done", call |-> call, caller |-> caller, result |-> Success(data)]
    IN <<Done(loadDataCall(f), "loadData", Array(<<Report(1)>>)),
         Done(getStats, "loadStats", [total_reports |-> 2]),
         Done(loadStatsAllCall, "loadStatsAll", Array(<<Report(1)>>))>>

\* The management page once its first list and its counters were loaded.
InitDelete ==
    /\ API_BASE_URL = DefaultBaseUrl
    /\ configLoaded = TRUE
    /\ configPc = "done"
    /\ loadConfigRuns = 1
    /\ logger = NewLogger
    /\ clearedView = None
    /\ rows = <<>>
    /\ headlessMode = TRUE
    /\ symbolCounter = 0
    /\ removeTimers = {}
    /\ isScraping = FALSE
    /\ controls = ScrapingControls(FALSE)
    /\ orchs = LoadedRequests
    /\ fetchCalls = [k \in 1..3 |-> FetchCall(DefaultBaseUrl, LoadedRequests[k].call.endpoint,
                                                LoadedRequests[k].call.options)]
    /\ returned = LoadedRequests[3].result
    /\ lastToast = showToast(<<"Loaded ", "1", " reports">>, <<"success">>)
    /\ DetailClosed
    /\ currentData = Array(<<Report(1)>>)
    /\ filteredData = Array(<<Report(1)>>)
    /\ deleteTargetId = JNull
    /\ deleteModal = [show |-> FALSE, detail |-> <<>>]
    /\ dataTableBody = TableOf(Array(<<Report(1)>>))
    /\ statCards = StatCounts([NoStatCards EXCEPT !["totalReports"] = "2"],
                              Array(<<Report(1)>>))
    /\ opened = <<>>

\* The user works the delete modal.
NextDelete ==
    \/ openDeleteModal
    \/ confirmDelete
    \/ cancelDelete
    \/ ManageFetchRejects
    \/ FetchResponds
    \/ ManageJsonResolves

SpecDelete == InitDelete /\ [][NextDelete]_vars

-----------------------------------------------------------------------------
\* Properties.

Last(s) == s[Len(s)]

CountType(type) == Cardinality({i \in 1..Len(logger.logs) : logger.logs[i].type = type})

\* message holds the parts of m, adjacent and in order
Contains(message, m) ==
    \E k \in 0..(Len(message) - Len(m)) : SubSeq(message, k + 1, k + Len(m)) = m

InFlight == {i \in 1..Len(orchs) : orchs[i].pc # "done"}

\* orchestration i gets its result in this step
Completes(i) == orchs[i].pc # "done" /\ orchs'[i].pc = "done"

\* what every start click does, whatever the rows hold
StartStep ==
    /\ ~controls.startDisabled
    /\ Len(logger'.logs) > Len(logger.logs)
    /\ returned' = returned
    /\ UNCHANGED <<configVars, clearedView, symbolCounter, removeTimers>>

\* C1: the three counters equal the number of entries, of success entries
\* and of error entries of the log, so success + errors <= total.
CountersMatchLog ==
    /\ logger.stats.total = Len(logger.logs)
    /\ logger.stats.success = CountType("success")
    /\ logger.stats.errors = CountType("error")
    /\ logger.stats.success + logger.stats.errors <= logger.stats.total

\* a log with a success and an error line, written after a clear
CountersWitness ==
    /\ clearedView # None
    /\ logger.stats.success >= 1
    /\ logger.stats.errors >= 1

\* C2: what clear() leaves and what its render and updateStats calls write is
\* an empty log with the three counters at zero, and the log element and the
\* counter elements always show the same number of entries.
ClearResetsTogether ==
    /\ clearedView # None =>
          /\ clearedView.logs = <<>>
          /\ clearedView.stats = [total |-> 0, success |-> 0, errors |-> 0]
          /\ clearedView.logElement = <<>>
          /\ clearedView.statsElements = [total |-> 0, success |-> 0, errors |-> 0]
    /\ Len(logger.logElement) = logger.statsElements.total
    /\ Len(logger.logElement) = Len(logger.logs)
    /\ logger.statsElements = logger.stats

\* the page right after handleClearLogs
ClearWitness ==
    /\ clearedView # None
    /\ logger.logs = <<Entry("info", <<"Console cleared">>)>>

\* C3: at most one orchestration is in flight.
AtMostOneInFlight == Cardinality(InFlight) <= 1

\* C4: a start click on rows that hold no non-blank symbol appends one error
\* entry, issues no network call, starts no orchestration and leaves the
\* scraping flag false and every control as it was.
EmptyStartRejected ==
    [][\A content \in Contents(Len(rows)) :
          (StartStep /\ Len(getSymbolsData(content)) = 0 /\ StartClick(content)) =>
             /\ Len(logger'.logs) = Len(logger.logs) + 1
             /\ SubSeq(logger'.logs, 1, Len(logger.logs)) = logger.logs
             /\ Last(logger'.logs).type = "error"
             /\ fetchCalls' = fetchCalls
             /\ orchs' = orchs
             /\ ~isScraping /\ ~isScraping'
             /\ controls' = controls
             /\ rows' = rows]_vars

\* an empty start was rejected on a page with no row left
EmptyStartWitness ==
    /\ lastToast = NoSymbolsToast
    /\ Len(rows) = 0
    /\ Last(logger.logs) = NoSymbolsEntry

IsSource(part) == part \in Sources

\* C5: a start click on rows that hold a target whose source is not cafef
\* appends one error entry that names the source of every such target, issues
\* no network call, starts no orchestration and leaves the scraping flag false.
UnsupportedStartRejected ==
    [][\A content \in Contents(Len(rows)) :
          (/\ StartStep
           /\ Len(Unsupported(getSymbolsData(content))) > 0
           /\ StartClick(content)) =>
             /\ Len(logger'.logs) = Len(logger.logs) + 1
             /\ SubSeq(logger'.logs, 1, Len(logger.logs)) = logger.logs
             /\ Last(logger'.logs).type = "error"
             /\ SelectSeq(Last(logger'.logs).message, IsSource)
                   = SourcesOf(Unsupported(getSymbolsData(content)))
             /\ fetchCalls' = fetchCalls
             /\ orchs' = orchs
             /\ ~isScraping /\ ~isScraping']_vars

\* a start with two unsupported targets was rejected
UnsupportedStartWitness ==
    /\ lastToast = UnsupportedToast
    /\ Last(logger.logs).type = "error"
    /\ SelectSeq(Last(logger.logs).message, IsSource) = <<"vietstock", "vietstock">>

\* the lines from position n + 1 on
After(logs, n) == SubSeq(logs, n + 1, Len(logs))

\* line is the log line the claim asks for result r of a bulk scrape
IsLineFor(line, r) ==
    IF r.success THEN line.type = "success"
    ELSE line.type = "error" /\ Contains(line.message, <<r.message>>)

\* C6: when a bulk scrape returns Success with {total_symbols,
\* successful_symbols, results}, the log receives one line per entry of
\* results, in order, and a summary line holding successful/total.
BulkResultLogged ==
    [][\A i \in 1..Len(orchs) :
          (/\ Completes(i)
           /\ Len(orchs[i].symbolsData) >= 2
           /\ Truthy(returned', "success")
           /\ Has(returned'.data, "results")) =>
             LET data == returned'.data
                 lines == After(logger'.logs, Len(logger.logs))
             IN /\ Len(lines) = Len(data.results) + 1
                /\ \A k \in 1..Len(data.results) : IsLineFor(lines[k], data.results[k])
                /\ Contains(Last(lines).message,
                            <<NumStr(data.successful_symbols), "/", NumStr(data.total_symbols)>>)]_vars

\* C7: when the scrape-one call returns Success the log receives a success
\* line with the server's created, updated and total report counts; when it
\* returns Failure with message m the log receives an error line holding m.
SingleResultLogged ==
    [][\A i \in 1..Len(orchs) :
          (Completes(i) /\ Len(orchs[i].symbolsData) = 1) =>
             LET line == Last(logger'.logs)
             IN /\ Len(logger'.logs) = Len(logger.logs) + 1
                /\ IF returned'.success
                   THEN /\ line.type = "success"
                        /\ Has(returned'.data, "reports_count") =>
                              /\ Contains(line.message, <<NumStr(returned'.data.reports_count)>>)
                              /\ Contains(line.message, <<NumStr(returned'.data.created_count)>>)
                              /\ Contains(line.message, <<NumStr(returned'.data.updated_count)>>)
                   ELSE /\ line.type = "error"
                        /\ Contains(line.message, returned'.error)]_vars

\* C8: every request() that settles gives its caller {success: true, data}
\* or {success: false, error}, whatever the configuration resolved to and
\* however the network call ended.
RequestNeverRaises ==
    /\ returned # None => IsOutcome(returned)
    /\ \A i \in 1..Len(orchs) : orchs[i].pc \in {"awaitConfig", "fetch", "json", "done"}

\* a TypeError inside the try block, with the base address undefined
RequestWitness ==
    /\ returned = Failure(NullPropertyMessage)
    /\ API_BASE_URL = Undefined

\* C9: no fetch is issued while configLoaded is false, a request started
\* before resolution waits for it, every issued URL starts with the resolved
\* base address, and loadConfig ran once.
ConfigGate ==
    /\ ~configLoaded =>
          /\ fetchCalls = <<>>
          /\ \A i \in 1..Len(orchs) : orchs[i].pc = "awaitConfig"
    /\ \A k \in 1..Len(fetchCalls) : fetchCalls[k].url[1] = API_BASE_URL
    /\ \A i \in 1..Len(orchs) : orchs[i].pc # "awaitConfig" => configLoaded
    /\ configLoaded <=> configPc = "done"
    /\ loadConfigRuns <= 1

\* two requests were issued against a configured base address
ConfigGateWitness ==
    /\ Len(fetchCalls) = 2
    /\ API_BASE_URL = ConfiguredBaseUrl
    /\ \A k \in 1..2 : fetchCalls[k].url = BuildUrl(ConfiguredBaseUrl, "/scrapper/scrape")

\* C10: once configuration resolution completed, the base address is the
\* default unless the response supplied an apiBaseUrl string.
ConfigFallsBack ==
    configLoaded =>
       API_BASE_URL \in {DefaultBaseUrl}
                        \cup {body.apiBaseUrl : body \in {b \in ConfigBodies : Has(b, "apiBaseUrl")}}

\* C11: with the configuration fetch rejected, every request is issued
\* against the default base address, a request that waits for the
\* configuration gets its network call issued, and every request returns.
RequestsComplete ==
    /\ [](\A k \in 1..Len(fetchCalls) : fetchCalls[k].url[1] = DefaultBaseUrl)
    /\ [](returned # None => IsOutcome(returned))
    /\ [](\A i \in 1..Len(orchs) : orchs[i].pc # "awaitConfig" => Len(fetchCalls) >= i)
    /\ \A i \in 1..MaxStarts :
          (Len(orchs) >= i) ~> (Len(orchs) >= i /\ orchs[i].pc = "done")

\* two requests returned after the configuration fetch was rejected
RequestsCompleteWitness ==
    /\ configLoaded
    /\ Len(orchs) = 2
    /\ \A i \in 1..2 : orchs[i].pc = "done"
    /\ Len(fetchCalls) = 2
    /\ \A k \in 1..2 : fetchCalls[k].url = BuildUrl(DefaultBaseUrl, "/scrapper/scrape")
    /\ IsOutcome(returned)

\* C12: the headers of every issued call hold the default Content-Type
\* unless the caller's headers give that key, and every header of the caller.
HeadersMerged ==
    \A k \in 1..Len(fetchCalls) :
        LET issued == fetchCalls[k].config.headers
        IN /\ "Content-Type" \in DOMAIN issued
           /\ \E options \in CallerOptions \cup {EmptyObject} :
                 LET given == IF Has(options, "headers") THEN options.headers ELSE EmptyObject
                 IN /\ DOMAIN issued = DOMAIN given \cup {"Content-Type"}
                    /\ \A h \in DOMAIN given : issued[h] = given[h]
                    /\ "Content-Type" \notin DOMAIN given =>
                          issued["Content-Type"] = "application/json"

\* C13: a request whose response has a non-success status returns, after its
\* one network call, a Failure holding the detail of the body when it has one
\* and the generic status message otherwise.
NonSuccessFailure ==
    [][\A i \in 1..Len(orchs) :
          (Completes(i) /\ orchs[i].pc = "json" /\ ~orchs[i].response.ok) =>
             LET response == orchs[i].response
                 detailed == {b \in ClientBodies(response) : Has(b, "detail")}
             IN /\ fetchCalls' = fetchCalls
                /\ Len(fetchCalls) = Len(orchs)
                /\ returned' \in {Failure(<<b.detail>>) : b \in detailed}
                                 \cup {Failure(HttpErrorMessage(response.status))}]_vars

\* the keys of the entries of a query, in order
KeysOf(entries) == [i \in 1..Len(entries) |-> entries[i][1]]

Position(k) == CHOOSE i \in 1..Len(ReportKeys) : ReportKeys[i] = k

InKeyOrder(keys) ==
    \A i, j \in 1..Len(keys) : i < j => Position(keys[i]) < Position(keys[j])

\* the values that stand for a filter left empty: the empty string, null and NaN
EmptyValues == {Str(""), JNull, NaN}

\* the two queries the specification writes out, and the one loadData sends
\* when only the symbol and limit fields are filled
QueryExamples ==
    /\ getReports([symbol |-> Str("FPT"), limit |-> Num(10)]).endpoint
          = "/financial/reports?symbol=FPT&limit=10"
    /\ getReports(EmptyObject).endpoint = "/financial/reports"
    /\ getReports(loadDataParams("FPT", "", "", "10")).endpoint
          = "/financial/reports?symbol=FPT&limit=10"

\* the filters whose list request was issued
Requested ==
    {params \in Filters :
        \E k \in 1..Len(fetchCalls) : fetchCalls[k].url[2] = getReports(params).endpoint}

\* what C14 asks of the query of one filter, given the values that count as absent
QueryHolds(params, absent) ==
    LET query == QueryParams(params)
    IN /\ {query[i][1] : i \in 1..Len(query)} = {k \in DOMAIN params : params[k] \notin absent}
       /\ InKeyOrder(KeysOf(query))
       /\ \A i \in 1..Len(query) : query[i][2] # ""
       /\ (query = <<>>) <=> (getReports(params).endpoint = "/financial/reports")

\* C14 as stated: the query holds a key for exactly the filters that have a
\* value, in the order symbol, report_type, report_year, limit, offset, none
\* with an empty value, and no query string when there is none.
QueryHoldsPresentKeys ==
    /\ \A params \in Requested : QueryHolds(params, EmptyValues)
    /\ QueryExamples

\* the falsy values: the empty ones and the number 0
FalsyValues == EmptyValues \cup {Num(0)}

\* C14 amended: the query holds a key for exactly the filters whose value is
\* truthy (a limit or offset of 0 is left out like an empty one), in the
\* order symbol, report_type, report_year, limit, offset, none with an empty
\* value, and no query string when there is none.
QueryHoldsTruthyKeys ==
    /\ \A params \in Requested : QueryHolds(params, FalsyValues)
    /\ QueryExamples

\* the list request for symbol FPT and limit 10 was issued and returned
QueryWitness ==
    /\ Len(fetchCalls) = 1
    /\ fetchCalls[1].url[2] = "/financial/reports?symbol=FPT&limit=10"
    /\ Truthy(returned, "success")

\* the page is idle: the flag is false, start and add are enabled, stop is
\* disabled and every input and select is enabled
Idle(scraping, buttons, rs) ==
    /\ scraping = FALSE
    /\ buttons = [startDisabled |-> FALSE, stopDisabled |-> TRUE, addDisabled |-> FALSE]
    /\ \A k \in 1..Len(rs) : ~rs[k].inputDisabled

\* C15: the step in which the network call of an orchestration completes,
\* with Success or with Failure, leaves the page idle, and the page is idle
\* whenever no orchestration is in flight.
CompletionIdles ==
    [][/\ \A i \in 1..Len(orchs) : Completes(i) => Idle(isScraping', controls', rows')
       /\ (\A i \in 1..Len(orchs') : orchs'[i].pc = "done") => Idle(isScraping', controls', rows')]_vars

\* a second start, made after a stop, completed with a Failure after the first
CompletionWitness ==
    /\ Len(orchs) = 2
    /\ \A i \in 1..2 : orchs[i].pc = "done"
    /\ returned = Failure(FetchRejectedMessage)
    /\ Idle(isScraping, controls, rows)
    /\ \E k \in 1..Len(logger.logs) : logger.logs[k] = StopEntry

\* C16: a stop with a request in flight appends one warning entry and makes
\* the page idle, and leaves every orchestration where it was; the call that
\* was in flight still completes and its result lines are appended.
StopDoesNotCancel ==
    [][/\ (InFlight # {} /\ handleStopScrape) =>
             /\ logger'.logs = Append(logger.logs, StopEntry)
             /\ Last(logger'.logs).type = "warning"
             /\ Idle(isScraping', controls', rows')
             /\ orchs' = orchs
             /\ fetchCalls' = fetchCalls
       /\ \A i \in 1..Len(orchs) :
             Completes(i) =>
                /\ Len(logger'.logs) > Len(logger.logs)
                /\ SubSeq(logger'.logs, 1, Len(logger.logs)) = logger.logs
                /\ Last(logger'.logs).type \in {"success", "error", "info"}]_vars

\* the result line of a scrape was appended after the warning of a stop,
\* with no start in between
StopWitness ==
    /\ Len(orchs) = 1
    /\ orchs[1].pc = "done"
    /\ Len(logger.logs) >= 2
    /\ logger.logs[Len(logger.logs) - 1] = StopEntry
    /\ Last(logger.logs).type \in {"success", "error"}

\* C17: while the scraping flag is true the start and add buttons, every
\* remove button and every input and select are disabled, and the rows do
\* not change.
ScrapingLocksRows ==
    [][isScraping =>
          /\ controls.startDisabled
          /\ controls.addDisabled
          /\ \A k \in 1..Len(rows) : rows[k].inputDisabled /\ rows[k].removeDisabled
          /\ RowIndexes(rows') = RowIndexes(rows)]_vars

\* C18: once configLoaded is true it stays true and API_BASE_URL does not
\* change any more; the base address is written only in the step that sets
\* the flag, and loadConfig runs once.
ConfigWrittenOnce ==
    [][/\ configLoaded => (configLoaded' /\ API_BASE_URL' = API_BASE_URL)
       /\ API_BASE_URL' # API_BASE_URL => (~configLoaded /\ configLoaded')
       /\ loadConfigRuns = 1 /\ loadConfigRuns' = 1]_vars

\* a request returned Success against the configured base address
ConfigWrittenWitness ==
    /\ configLoaded
    /\ API_BASE_URL = ConfiguredBaseUrl
    /\ Len(orchs) = 1
    /\ orchs[1].pc = "done"
    /\ Truthy(returned, "success")
    /\ fetchCalls[1].url[1] = ConfiguredBaseUrl

IsPrefix(s, t) == Len(s) <= Len(t) /\ SubSeq(t, 1, Len(s)) = s

\* C19: one call of log() extends logs by its entry at the end, clear()
\* empties it, and every step of the page leaves the earlier entries in
\* place, or empties the log by clear() and then appends to it.
LogAppendOnly ==
    [][/\ \A type \in LogTypes :
             /\ Log(logger, type, <<"m">>).logs = Append(logger.logs, Entry(type, <<"m">>))
             /\ Log(logger', type, <<"m">>).logs = Append(logger'.logs, Entry(type, <<"m">>))
       /\ Clear(logger).logs = <<>>
       /\ \/ IsPrefix(logger.logs, logger'.logs)
          \/ /\ clearedView'.logs = <<>>
             /\ logger'.logs = <<Entry("info", <<"Console cleared">>)>>]_vars

\* lines were appended, the log was cleared and lines were appended again
LogAppendWitness ==
    /\ clearedView # None
    /\ Len(logger.logs) >= 4
    /\ logger.logs[1] = Entry("info", <<"Console cleared">>)
    /\ logger.stats.total = Len(logger.logs)

\* the non-blank symbols of the rows from row r on, in document order
RECURSIVE RowSymbols(_, _)
RowSymbols(content, r) ==
    IF r > Len(content) THEN <<>>
    ELSE (IF content[r].value \in {"", " "} THEN <<>> ELSE <<TrimUpper(content[r].value)>>)
         \o RowSymbols(content, r + 1)

\* the orchestrations whose request is past the configuration gate
Issued(os) == {i \in 1..Len(os) : os[i].pc # "awaitConfig"}

\* C20: a start that passes validation makes one API call, scrape-one for
\* one target and otherwise scrape-many with every collected symbol in row
\* order, and each orchestration has exactly one network call, issued when
\* the configuration is resolved.
OneCallPerStart ==
    [][/\ \A content \in SymbolContents(Len(rows)) :
             (StartStep /\ StartClick(content) /\ Len(orchs') = Len(orchs) + 1) =>
                LET symbols == RowSymbols(content, 1)
                    call == Last(orchs').call
                IN /\ Len(symbols) >= 1
                   /\ IF Len(symbols) = 1
                      THEN /\ call.endpoint = "/scrapper/scrape"
                           /\ call.options.body.symbol = symbols[1]
                      ELSE /\ call.endpoint = "/scrapper/scrape-bulk"
                           /\ call.options.body.symbols = symbols
                   /\ Len(fetchCalls') = Len(fetchCalls) + (IF configLoaded THEN 1 ELSE 0)
       /\ Len(fetchCalls') = Cardinality(Issued(orchs'))
       /\ \A i \in 1..Len(orchs') :
             orchs'[i].pc \in {"fetch", "json"} =>
                /\ fetchCalls'[i].url[2] = orchs'[i].call.endpoint
                /\ fetchCalls'[i].config.method = "POST"
                /\ fetchCalls'[i].config.body = orchs'[i].call.options.body]_vars

\* a bulk scrape of VNM and FPT, in that row order, was issued and completed
OneCallWitness ==
    /\ Len(orchs) = 1
    /\ orchs[1].pc = "done"
    /\ Len(fetchCalls) = 1
    /\ fetchCalls[1].url[2] = "/scrapper/scrape-bulk"
    /\ fetchCalls[1].config.body.symbols = <<"VNM", "FPT">>

\* C21: when a bulk scrape returns Success with per-symbol results, the new
\* log lines are the summary line first and then exactly one line per entry
\* of results, in the order the server sent them.
BulkLinesInServerOrder ==
    [][\A i \in 1..Len(orchs) :
          (/\ Completes(i)
           /\ Len(orchs[i].symbolsData) >= 2
           /\ Truthy(returned', "success")
           /\ Has(returned'.data, "results")) =>
             LET results == returned'.data.results
                 lines == After(logger'.logs, Len(logger.logs))
             IN /\ Len(lines) = 1 + Len(results)
                /\ Contains(lines[1].message, <<"Bulk scrape completed: ">>)
                /\ \A k \in 1..Len(results) :
                      /\ IsLineFor(lines[k + 1], results[k])
                      /\ Contains(lines[k + 1].message, <<results[k].symbol>>)]_vars

\* a toast that announces a success: collection.js passes the kind first
IsSuccessToast(toast) == toast.message = <<"success">> \/ toast.type = <<"success">>

\* C22: when the scrape call of an orchestration, single or bulk, returns a
\* Failure, the completion step appends at least one error entry, so the
\* errors counter grows, and the toast it shows does not announce a success.
FailureSurfaced ==
    [][\A i \in 1..Len(orchs) :
          (Completes(i) /\ ~Truthy(returned', "success")) =>
             LET lines == After(logger'.logs, Len(logger.logs))
             IN /\ \E k \in 1..Len(lines) : lines[k].type = "error"
                /\ logger'.stats.errors > logger.stats.errors
                /\ ~IsSuccessToast(lastToast')]_vars

\* C23: whatever rows are added and removed, and whenever the removal timers
\* fire, the container holds at least one target row.
AtLeastOneRow == Len(rows) >= 1

ClearedEntry == Entry("info", <<"Console cleared">>)

\* C24: whatever the log holds, a click on the clear button leaves exactly
\* one entry, the info line 'Console cleared', with the counters at total 1,
\* success 0 and errors 0, and the log element shows that one line.
ClearLeavesOneLine ==
    [][handleClearLogs =>
          /\ logger'.logs = <<ClearedEntry>>
          /\ logger'.stats = [total |-> 1, success |-> 0, errors |-> 0]
          /\ logger'.statsElements = [total |-> 1, success |-> 0, errors |-> 0]
          /\ Len(logger'.logElement) = 1
          /\ logger'.logElement[1].message = ClearedEntry.message]_vars

\* the log was cleared after the scrape call had failed and its lines were written
ClearLeavesWitness ==
    /\ logger.logs = <<ClearedEntry>>
    /\ logger.stats = [total |-> 1, success |-> 0, errors |-> 0]
    /\ returned = Failure(FetchRejectedMessage)
    /\ Len(orchs) = 1
    /\ orchs[1].pc = "done"

\* the endpoints of the detail page for report 7, in the order the claim gives
DetailEndpoints ==
    <<"/financial/reports/7", "/financial/reports/7/balance-sheet",
      "/financial/reports/7/income-statement", "/financial/reports/7/cash-flow">>

\* C25: loadReportData makes no call when the report id is absent; otherwise
\* its calls are get-report-by-id, balance sheet, income statement and cash
\* flow in that order, each made only after the one before it returned, the
\* statements only after get-report-by-id returned Success; and a statement
\* call that returns Failure is followed at once by the next statement call.
DetailCallsInOrder ==
    /\ [](/\ ~IsTruthy(reportId) => orchs = <<>> /\ fetchCalls = <<>>
          /\ Len(orchs) <= 4
          /\ \A i \in 1..Len(orchs) :
                /\ orchs[i].call.endpoint = DetailEndpoints[i]
                /\ i < Len(orchs) => orchs[i].pc = "done"
          /\ Len(orchs) >= 2 => orchs[1].result.success
          /\ Len(fetchCalls) <= Len(orchs)
          /\ \A j \in 1..Len(fetchCalls) : fetchCalls[j].url[2] = DetailEndpoints[j])
    /\ [][\A i \in 2..Len(orchs) :
             (/\ i < 4
              /\ orchs[i].pc # "done"
              /\ orchs'[i].pc = "done"
              /\ ~orchs'[i].result.success) =>
                 /\ Len(orchs') = i + 1
                 /\ orchs'[i + 1].call.endpoint = DetailEndpoints[i + 1]
                 /\ orchs'[i + 1].pc = "fetch"]_vars

\* the balance sheet call failed and the two statements after it were loaded
DetailOrderWitness ==
    /\ reportId = Str("7")
    /\ Len(orchs) = 4
    /\ orchs[2].pc = "done" /\ ~orchs[2].result.success
    /\ orchs[4].pc = "done" /\ orchs[4].result.success
    /\ containers["balance-sheet"] = "none"
    /\ containers["cash-flow"] = "table"
    /\ detailPc = "settled"

\* the list requests loadData made, by position in orchs
Loads == {i \in 1..Len(orchs) : orchs[i].caller = "loadData"}

\* the list request made last
LatestLoad == CHOOSE i \in Loads : \A j \in Loads : j <= i

\* C27: once every list request of loadData has returned, the latest of them
\* with a Success, currentData and filteredData hold the data of that latest
\* request, in whatever order the responses arrived; and every loadData that
\* returns with a Success leaves filteredData equal to currentData.
LatestLoadWins ==
    /\ []((/\ Loads # {}
           /\ \A i \in Loads : orchs[i].pc = "done"
           /\ orchs[LatestLoad].result.success) =>
              /\ currentData = orchs[LatestLoad].result.data
              /\ filteredData = currentData)
    /\ [][\A i \in Loads :
             (orchs[i].pc # "done" /\ orchs'[i].pc = "done" /\ orchs'[i].result.success) =>
                filteredData' = currentData']_vars

\* request i of the management page, made by confirmDelete, returns in this step
DeleteCompletes(i) ==
    /\ orchs[i].caller = "confirmDelete"
    /\ orchs[i].pc # "done"
    /\ orchs'[i].pc = "done"

\* C26: while the modal of one window.deleteReport(id) is open at most one
\* delete request is made, and it is for that id; confirmDelete makes no
\* request when deleteTargetId is null; closing the modal sets deleteTargetId
\* to null; a delete that returns Failure leaves the modal open and
\* deleteTargetId as it was; a delete that returns Success closes the modal
\* and makes the list request and the stats request of the reload.
OneDeletePerOpening ==
    /\ [](\A k \in 1..Len(opened) :
             /\ Len(opened[k].deleted) <= 1
             /\ \A d \in 1..Len(opened[k].deleted) : opened[k].deleted[d] = opened[k].id)
    /\ [][/\ (confirmDelete /\ ~IsTruthy(deleteTargetId)) => orchs' = orchs
          /\ cancelDelete => deleteTargetId' = JNull
          /\ \A i \in 1..Len(orchs) :
                DeleteCompletes(i) =>
                   IF orchs'[i].result.success
                   THEN /\ ~deleteModal'.show
                        /\ deleteTargetId' = JNull
                        /\ Len(orchs') = Len(orchs) + 2
                        /\ orchs'[Len(orchs) + 1].caller = "loadData"
                        /\ orchs'[Len(orchs) + 2].caller = "loadStats"
                   ELSE /\ deleteModal' = deleteModal
                        /\ deleteTargetId' = deleteTargetId]_vars

====
